---- MODULE Spec2Model ----
(***************************************************************************)
(* Model of warp_drive/training/utils/auto_scaler.py:                      *)
(*   ProcessWrapper     a process whose run() reports an exception on a    *)
(*                      pipe                                               *)
(*   best_param_search  floor / ceiling / bisection search for the largest *)
(*                      parameter value at which func runs                 *)
(*   auto_scaling       two searches in a row (num_envs, then the batch    *)
(*                      size per env) over a config mutated in place       *)
(* The caller either calls best_param_search directly with a threshold     *)
(* probe (entry = "find") or calls auto_scaling with a job and a config    *)
(* (entry = "tune").                                                       *)
(***************************************************************************)
EXTENDS Integers, Sequences, FiniteSets, TLC

\* ------------------------------------------------------------------ bounds
MaxLow == 4         \* starting values of low / config num_envs: 0..MaxLow
MaxMargin == 3      \* margins given to a direct best_param_search: 0..MaxMargin
MaxT == 5           \* thresholds of the probed job: 0..MaxT
MaxT2 == 2          \* thresholds of the batch size per env: 0..MaxT2
MaxEpLen == 1       \* env.episode_length: 0..MaxEpLen
MaxCrashBand == 1   \* the job dies, instead of raising, with up to this many envs too
                    \* many (or with none)
MaxBatch0 == 2      \* train_batch_size before the call: 1 or MaxBatch0
MaxProbes == 14     \* probes one run may make before the model stops following it

\* ------------------------------------------------- constants of the program
DefaultLow == 1
DefaultMargin == 1
NumIters == 2

\* ------------------------------------------------------------------- values
\* A Python value that is an int or None.
None == [isNone |-> TRUE, v |-> 0]
Int_(n) == [isNone |-> FALSE, v |-> n]
IsNone(x) == x.isNone

RECURSIVE GCD(_, _)
GCD(a, b) == IF b = 0 THEN a ELSE GCD(b, a % b)

\* The number n / d (true division), kept as a reduced fraction <<num, den>>.
TrueDiv(n, d) == LET g == GCD(n, d) IN IF g = 0 THEN <<0, 1>> ELSE <<n \div g, d \div g>>

RequiredKeys == {"num_envs", "num_episodes", "use_wandb", "episode_length"}
AllKeys == RequiredKeys \cup {"train_batch_size"}

VARIABLES
    entry,          \* "find": best_param_search called directly; "tune": auto_scaling
    job,            \* the probed function: [T1, TC, T2, oomCrash, zeroOk, free, err,
                    \* given, spawnable]
    config,         \* the configuration dict (values; see keys)
    keys,           \* the keys present in the configuration dict
    pre,            \* the arguments of the call: [cfg, keys, low, margin]
    saved,          \* auto_scaling's locals num_episodes and use_wandb
    max_envs,       \* auto_scaling's local max_envs
    apc,            \* position in auto_scaling
    exc,            \* the exception that reached the caller ("none" if none)
    pc,             \* position in best_param_search
    phase,          \* the try block of best_param_search that is calling func
    low, high, margin, success,
    cand,           \* the argument of the current/last call of func
    ret,            \* the value best_param_search returned
    child,          \* the ProcessWrapper p: "none", "running", "blocked", "exited"
    childCfg,       \* the configuration pickled into the child at p.start()
    childResult,    \* how the child's run ended: "ok", "raise", "crash"
    pipe,           \* what the child sent and the parent has not received
    p_exception,    \* p._exception
    started,        \* how many times p.start() was called
    finished,       \* how many child processes have ended
    tried,          \* the "Trying with a parameter value of ..." lines printed
    outcomes        \* for each line of tried, what the search saw

vars == <<entry, job, config, keys, pre, saved, max_envs, apc, exc, pc, phase,
          low, high, margin, success, cand, ret, child, childCfg, childResult,
          pipe, p_exception, started, finished, tried, outcomes>>

searchVars == <<pc, low, high, success, ret>>
procVars == <<child, childCfg, childResult, pipe, p_exception, started, finished>>

\* --------------------------------------------------------- best_param_search
\* A floor discovery that steps down by one.
Halve_Decrement(l) == l - 1

\* A midpoint rounded up past the middle.
Mid_RoundUp(l, h) == (l + h) \div 2 + 1

Halve(l) == l \div 2
Double(l) == 2 * l
Mid(l, h) == (l + h) \div 2

Returned(l, h, s, v) == [pc |-> "returned", low |-> l, high |-> h, success |-> s, ret |-> v]
Goto(p, l, h, s) == [pc |-> p, low |-> l, high |-> h, success |-> s, ret |-> None]

\* A bisection that stops one step early.
BisectOrReturn_Loose(l, h, m) ==
    IF h - l > m + 1 THEN Goto("bisect", l, h, FALSE) ELSE Returned(l, h, FALSE, Int_(l))

\* Lines 102-117 once low and high are set: another bisection or return low.
BisectOrReturn(l, h, m) ==
    IF h - l > m THEN Goto("bisect", l, h, FALSE) ELSE Returned(l, h, FALSE, Int_(l))

\* Lines 66-74: after the probe at the starting low.
AfterFirst(ok, l, h) ==
    IF ok THEN Goto("ceil", l, h, TRUE) ELSE Goto("floor", l, h, FALSE)

\* Lines 74-85: after a probe at the halved low.
AfterFloor(ok, l, h) ==
    IF ok THEN Goto("ceil", l, h, TRUE)
    ELSE IF l > 0 THEN Goto("floor", l, h, FALSE)
    ELSE Returned(l, h, FALSE, None)

\* Lines 89-104: after a probe at high = 2 * low.
AfterCeil(ok, l, h, m) ==
    IF ok THEN Goto("ceil", h, h, TRUE) ELSE BisectOrReturn(l, h, m)

\* A bisection that moves the wrong end of the bracket.
AfterBisect_Swapped(ok, l, h, c, m) ==
    IF ok THEN BisectOrReturn(l, c, m) ELSE BisectOrReturn(c, h, m)

\* Lines 104-117: after a probe at mid.
AfterBisect(ok, l, h, c, m) ==
    IF ok THEN BisectOrReturn(c, h, m) ELSE BisectOrReturn(l, c, m)

\* What best_param_search does with the outcome of func(c) in try block ph.
After(ph, ok, l, h, c, m) ==
    CASE ph = "first" -> AfterFirst(ok, l, h)
      [] ph = "floor" -> AfterFloor(ok, l, h)
      [] ph = "ceil" -> AfterCeil(ok, l, h, m)
      [] ph = "bisect" -> AfterBisect(ok, l, h, c, m)

ApplySearch(r) ==
    /\ pc' = r.pc
    /\ low' = r.low
    /\ high' = r.high
    /\ success' = r.success
    /\ ret' = r.ret

\* ------------------------------------------------------------------ the probe
\* The func given to a direct best_param_search: runs for c <= T1 (at 0: zeroOk).
FindProbe(c) == IF c = 0 THEN job.zeroOk ELSE c <= job.T1

\* What a call func(c) of a direct best_param_search can do: TRUE, it returns;
\* FALSE, it raises.  A free func may do either at any c <= T1, also when called
\* again with the same c; above T1 it raises.
FindOutcomes(c) ==
    IF job.free THEN (IF c > job.T1 THEN {FALSE} ELSE BOOLEAN) ELSE {FindProbe(c)}

\* One line of outcomes: what the search saw, how the child ended ("none":
\* launch_process was not called; "nostart": it was called and p.start()
\* raised), and the num_envs and train_batch_size of cfg.
Outcome(ok, ch, cfg) ==
    [ok |-> ok, child |-> ch, n |-> cfg.num_envs, b |-> cfg.train_batch_size]

\* setup_trainer_and_train in the child: runs with at most T1 envs and a batch of
\* at most T2 per env; with more envs it dies (up to TC envs) or raises; with a
\* larger batch it dies (oomCrash) or raises.  A child that dies (os._exit, a
\* fatal signal) sends nothing.  The error the job raises is of one kind (err).
Job(cfg) ==
    LET n == cfg.num_envs.v
        b == cfg.train_batch_size
    IN  IF n = 0 THEN (IF job.zeroOk THEN "ok" ELSE "raise")
        ELSE IF n > job.T1 THEN (IF n <= job.TC THEN "crash" ELSE "raise")
        ELSE IF b > job.T2 * n THEN (IF job.oomCrash THEN "crash" ELSE "raise")
        ELSE "ok"

\* ------------------------------------------------------------ ProcessWrapper
\* The errors a job may raise: an ordinary one ("small"); one whose pickle does
\* not fit the pipe's buffer ("big"); one that cannot be pickled
\* ("unpicklable", e.g. of a class defined inside a function); one that is
\* pickled but cannot be rebuilt by the receiver ("unrebuildable", e.g. of a
\* class whose __init__ takes two arguments); one whose truth value is False
\* ("falsy", a class that defines __bool__).
ErrKinds == {"small", "big", "unpicklable", "unrebuildable", "falsy"}

\* Line 37, send(e): what arrives on the pipe.  Pickling an unpicklable error
\* raises inside the except handler: nothing is sent and the child ends.
Pickled(err) ==
    CASE err = "unpicklable" -> <<>>
      [] err = "unrebuildable" -> <<"Unrebuildable">>
      [] err = "falsy" -> <<"Falsy">>
      [] OTHER -> <<"Exception">>

\* run(): what the child sends on the pipe before it ends.
ProcessRun(o) ==
    CASE o = "ok" -> <<"None">>
      [] o = "raise" -> Pickled(job.err)
      [] o = "crash" -> <<>>

\* An exception property that never polls the pipe.
exception_NoPoll(pp, e) == [exception |-> e, pipe |-> pp, raised |-> "none"]

\* The exception property: receive if there is something to receive.  recv()
\* takes the message off the pipe and rebuilds the object; when that fails the
\* property raises and _exception stays as it was.
exception(pp, e) ==
    IF pp # <<>>
    THEN IF Head(pp) = "Unrebuildable"
         THEN [exception |-> e, pipe |-> Tail(pp), raised |-> "TypeError"]
         ELSE [exception |-> Head(pp), pipe |-> Tail(pp), raised |-> "none"]
    ELSE [exception |-> e, pipe |-> pp, raised |-> "none"]

\* Truth value of p.exception (line 133).
Truthy(e) == e \notin {"None", "Falsy"}

\* ------------------------------------------------------------- the closures
\* Lines 144-148 and 158-162: num_episodes = num_iters * train_batch_size / episode_length.
\* The division raises OverflowError only when its result leaves the range of a
\* float (2^1024); no run is followed that far (MaxProbes), so it has no branch here.
SetEpisodes(cfg, ks) ==
    IF "episode_length" \notin ks THEN [cfg |-> cfg, keys |-> ks, raised |-> "KeyError"]
    ELSE IF cfg.episode_length = 0
    THEN [cfg |-> cfg, keys |-> ks, raised |-> "ZeroDivisionError"]
    ELSE [cfg |-> [cfg EXCEPT !.num_episodes =
                       TrueDiv(NumIters * cfg.train_batch_size, cfg.episode_length)],
          keys |-> ks \cup {"num_episodes"}, raised |-> "none"]

\* set_num_envs_and_train up to the launch of the process.
SetNumEnvs(cfg, ks, n) ==
    SetEpisodes([cfg EXCEPT !.num_envs = Int_(n), !.train_batch_size = n],
                ks \cup {"num_envs", "train_batch_size"})

\* A Stage B closure that, like Stage A's, also writes num_envs.
SetBatchSize_Rescale(cfg, ks, c) ==
    IF IsNone(cfg.num_envs) THEN [cfg |-> cfg, keys |-> ks, raised |-> "TypeError"]
    ELSE SetEpisodes([cfg EXCEPT !.num_envs = Int_(c),
                                 !.train_batch_size = c * cfg.num_envs.v],
                     ks \cup {"train_batch_size"})

\* A Stage B closure that forgets to multiply by num_envs.
SetBatchSize_NoScale(cfg, ks, c) ==
    IF IsNone(cfg.num_envs) THEN [cfg |-> cfg, keys |-> ks, raised |-> "TypeError"]
    ELSE SetEpisodes([cfg EXCEPT !.train_batch_size = c], ks \cup {"train_batch_size"})

\* set_batch_size_per_env_and_train up to the launch of the process.
SetBatchSize(cfg, ks, c) ==
    IF IsNone(cfg.num_envs) THEN [cfg |-> cfg, keys |-> ks, raised |-> "TypeError"]
    ELSE SetEpisodes([cfg EXCEPT !.train_batch_size = c * cfg.num_envs.v],
                     ks \cup {"train_batch_size"})

Closure(c) ==
    IF apc = "stageA" THEN SetNumEnvs(config, keys, c) ELSE SetBatchSize(config, keys, c)

Stage == IF entry = "find" THEN "find" ELSE apc

\* Lines 19 and 131: under the spawn start method p.start() pickles the process
\* object, with the target and its arguments, in the parent; when the job or
\* the configuration cannot be pickled it raises before any child exists.
StartRaises == ~job.spawnable

\* func(c) called from try block ph, with low and high as they are at the call.
Invoke(ph, l, h, c) ==
    /\ Len(tried) < MaxProbes
    /\ tried' = Append(tried, [stage |-> Stage, phase |-> ph, cand |-> c])
    /\ cand' = c
    /\ phase' = ph
    /\ IF entry = "find"
       THEN /\ \E ok \in FindOutcomes(c) :
                   /\ ApplySearch(After(ph, ok, l, h, c, margin))
                   /\ outcomes' = Append(outcomes, Outcome(ok, "none", config))
            /\ UNCHANGED <<config, keys, procVars>>
       ELSE LET r == Closure(c) IN
            /\ config' = r.cfg
            /\ keys' = r.keys
            /\ IF r.raised # "none"
               THEN /\ ApplySearch(After(ph, FALSE, l, h, c, margin))
                    /\ outcomes' = Append(outcomes, Outcome(FALSE, "none", r.cfg))
                    /\ UNCHANGED procVars
               ELSE IF StartRaises
               THEN \* launch_process: p.start() raises, no child is started
                    /\ ApplySearch(After(ph, FALSE, l, h, c, margin))
                    /\ outcomes' = Append(outcomes, Outcome(FALSE, "nostart", r.cfg))
                    /\ UNCHANGED procVars
               ELSE \* launch_process: p = ProcessWrapper(...); p.start()
                    /\ child' = "running"
                    /\ childCfg' = r.cfg
                    /\ pipe' = <<>>
                    /\ p_exception' = "None"
                    /\ started' = started + 1
                    /\ pc' = "wait"
                    /\ low' = l
                    /\ high' = h
                    /\ UNCHANGED <<success, ret, childResult, finished, outcomes>>
    /\ UNCHANGED <<entry, job, pre, saved, max_envs, margin>>

\* A precondition that forgets the margin.
Precondition_NoMargin(l, m) == l > 0

\* Lines 60-61: assert low > 0; assert margin > 0.
Precondition(l, m) == l > 0 /\ m > 0

\* Line 62: assert func is not None.
FuncGiven == job.given

\* Lines 60-72: the assertions and the probe at the starting low.
SearchEntry ==
    /\ pc = "entry"
    /\ IF Precondition(low, margin) /\ FuncGiven
       THEN Invoke("first", low, high, low) /\ UNCHANGED <<apc, exc>>
       ELSE /\ pc' = "asserted"
            /\ exc' = "AssertionError"
            /\ apc' = IF entry = "tune" THEN "raised" ELSE apc
            /\ UNCHANGED <<entry, job, config, keys, pre, saved, max_envs, phase, low,
                           high, margin, success, cand, ret, procVars, tried, outcomes>>

\* Lines 74-81: one iteration of the halving loop.
FloorIter ==
    /\ pc = "floor"
    /\ Invoke("floor", Halve(low), high, Halve(low))
    /\ UNCHANGED <<apc, exc>>

\* Lines 89-97: one iteration of the doubling loop.
CeilIter ==
    /\ pc = "ceil"
    /\ Invoke("ceil", low, Double(low), Double(low))
    /\ UNCHANGED <<apc, exc>>

\* Lines 104-114: one iteration of the bisection loop.
BisectIter ==
    /\ pc = "bisect"
    /\ Invoke("bisect", low, high, Mid(low, high))
    /\ UNCHANGED <<apc, exc>>

\* Line 37: send(e) writes the pickled error to the pipe and returns once all of
\* it is written.  Nobody reads the pipe before join() has returned (lines
\* 132-133), so an error larger than the pipe's buffer keeps the child in send.
SendBlocks(o) == o = "raise" /\ job.err = "big"

\* ProcessWrapper.run in the child: the job ends, the child sends its result and
\* exits, or stays blocked in send.
ChildRun ==
    /\ child = "running"
    /\ childResult' = Job(childCfg)
    /\ pipe' = ProcessRun(Job(childCfg))
    /\ IF SendBlocks(Job(childCfg))
       THEN child' = "blocked" /\ finished' = finished
       ELSE child' = "exited" /\ finished' = finished + 1
    /\ UNCHANGED <<entry, job, config, keys, pre, saved, max_envs, apc, exc, pc, phase,
                   low, high, margin, success, cand, ret, childCfg, p_exception,
                   started, tried, outcomes>>

\* A launch_process that does not wait for the child.
Joined_NoWait == TRUE

\* Line 132: p.join() returns once the child has ended.
Joined == child = "exited"

\* launch_process from p.join() on, and the except clause of the calling try block.
Join ==
    /\ pc = "wait"
    /\ Joined
    /\ LET e == exception(pipe, p_exception)
           ok == e.raised = "none" /\ ~Truthy(e.exception)
       IN  /\ pipe' = e.pipe
           /\ p_exception' = e.exception
           /\ ApplySearch(After(phase, ok, low, high, cand, margin))
           /\ outcomes' = Append(outcomes, Outcome(ok, childResult, childCfg))
    /\ child' = "none"
    /\ UNCHANGED <<entry, job, config, keys, pre, saved, max_envs, apc, exc, phase,
                   margin, cand, childCfg, childResult, started, finished, tried>>

\* -------------------------------------------------------------- auto_scaling
\* A tuning run that leaves wandb as the caller set it.
DisableWandb_Skip(cfg) == cfg

\* Line 170: config["saving"]["use_wandb"] = False.
DisableWandb(cfg) == [cfg EXCEPT !.use_wandb = FALSE]

\* Lines 193-194: put back the saved num_episodes and use_wandb.
Restore(cfg, sv) ==
    [cfg EXCEPT !.num_episodes = sv.num_episodes, !.use_wandb = sv.use_wandb]

\* Lines 166-178: snapshot, disable wandb, start the search for num_envs.
TuneBegin ==
    /\ apc = "init"
    /\ IF "num_episodes" \notin keys \/ "use_wandb" \notin keys
       THEN /\ apc' = "raised"
            /\ exc' = "KeyError"
            /\ UNCHANGED <<config, saved, pc, low, margin>>
       ELSE /\ saved' = [num_episodes |-> config.num_episodes,
                         use_wandb |-> config.use_wandb]
            /\ config' = DisableWandb(config)
            /\ IF "num_envs" \notin keys
               THEN /\ apc' = "raised"
                    /\ exc' = "KeyError"
                    /\ UNCHANGED <<pc, low, margin>>
               ELSE /\ apc' = "stageA"
                    /\ pc' = "entry"
                    /\ low' = config.num_envs.v
                    /\ margin' = DefaultMargin
                    /\ UNCHANGED exc
    /\ UNCHANGED <<entry, job, keys, pre, max_envs, phase, high, success, cand, ret,
                   procVars, tried, outcomes>>

\* Lines 178-187: commit max_envs and start the search for the batch size per env.
TuneCommitA ==
    /\ apc = "stageA"
    /\ pc = "returned"
    /\ max_envs' = ret
    /\ config' = [config EXCEPT !.num_envs = ret]
    /\ apc' = "stageB"
    /\ pc' = "entry"
    /\ low' = DefaultLow
    /\ margin' = DefaultMargin
    /\ high' = 0
    /\ success' = FALSE
    /\ ret' = None
    /\ UNCHANGED <<entry, job, keys, pre, saved, exc, phase, cand, procVars, tried,
                   outcomes>>

\* Lines 187-196: commit train_batch_size, restore, return.
TuneFinish ==
    /\ apc = "stageB"
    /\ pc = "returned"
    /\ IF IsNone(ret) \/ IsNone(config.num_envs)
       THEN /\ apc' = "raised"
            /\ exc' = "TypeError"
            /\ UNCHANGED <<config, keys>>
       ELSE /\ config' = Restore([config EXCEPT !.train_batch_size =
                                                   ret.v * config.num_envs.v], saved)
            /\ keys' = keys \cup {"train_batch_size"}
            /\ apc' = "done"
            /\ UNCHANGED exc
    /\ pc' = "idle"
    /\ UNCHANGED <<entry, job, pre, saved, max_envs, phase, low, high, margin, success,
                   cand, ret, procVars, tried, outcomes>>

\* ---------------------------------------------------------------------- Init
NoJob == [T1 |-> 0, TC |-> 0, T2 |-> 0, oomCrash |-> FALSE, zeroOk |-> FALSE,
          free |-> FALSE, err |-> "small", given |-> TRUE, spawnable |-> TRUE]

InitCommon ==
    /\ saved = [num_episodes |-> <<0, 1>>, use_wandb |-> FALSE]
    /\ max_envs = None
    /\ exc = "none"
    /\ phase = "none"
    /\ high = 0
    /\ success = FALSE
    /\ cand = 0
    /\ ret = None
    /\ child = "none"
    /\ childResult = "none"
    /\ pipe = <<>>
    /\ p_exception = "None"
    /\ started = 0
    /\ finished = 0
    /\ tried = <<>>
    /\ outcomes = <<>>

\* best_param_search(low, margin, func) called with a threshold probe, a free
\* one, or without a func (the default, func=None).
InitFind ==
    /\ entry = "find"
    /\ \/ \E t \in 0..MaxT, z \in BOOLEAN :
              job = [NoJob EXCEPT !.T1 = t, !.TC = t, !.zeroOk = z]
       \/ \E t \in 0..MaxT :
              job = [NoJob EXCEPT !.T1 = t, !.TC = t, !.free = TRUE]
       \/ job = [NoJob EXCEPT !.given = FALSE]
    /\ config = [num_envs |-> Int_(1), train_batch_size |-> 1, num_episodes |-> <<1, 1>>,
                 episode_length |-> 1, use_wandb |-> FALSE]
    /\ keys = AllKeys
    /\ apc = "none"
    /\ pc = "entry"
    /\ low \in (-1)..MaxLow
    /\ margin \in (-1)..MaxMargin

\* auto_scaling(setup_trainer_and_train, config) called with a job and a config.
\* The errors other than "small" and "big" are raised by jobs that never die.
\* With a required field missing or episode_length = 0 no child is ever started
\* (lines 144-148, 158-162, 167-168, 177), so one job stands for all; so does
\* one job that cannot be pickled for the spawn (no child is ever started).
InitTune ==
    /\ entry = "tune"
    /\ \E n \in 0..MaxLow, b \in {1, MaxBatch0}, e \in 0..MaxEpLen, w \in BOOLEAN :
           config = [num_envs |-> Int_(n), train_batch_size |-> b,
                     num_episodes |-> <<1, 1>>, episode_length |-> e, use_wandb |-> w]
    /\ keys \in {AllKeys} \cup {AllKeys \ {k} : k \in RequiredKeys}
    /\ IF RequiredKeys \subseteq keys /\ config.episode_length > 0
       THEN \E t1 \in 0..MaxT, t2 \in 0..MaxT2, oc \in BOOLEAN, z \in BOOLEAN,
               er \in ErrKinds :
              \E tc \in {t1, t1 + MaxCrashBand} :
                /\ (er \notin {"small", "big"}) => (tc = t1 /\ ~oc)
                /\ job = [T1 |-> t1, TC |-> tc, T2 |-> t2, oomCrash |-> oc,
                          zeroOk |-> z, free |-> FALSE, err |-> er,
                          given |-> TRUE, spawnable |-> TRUE]
            \/ job = [NoJob EXCEPT !.T1 = 1, !.TC = 1, !.T2 = 1, !.spawnable = FALSE]
       ELSE job = [NoJob EXCEPT !.T1 = 1, !.TC = 1, !.T2 = 1]
    /\ apc = "init"
    /\ pc = "idle"
    /\ low = 0
    /\ margin = 0

Init ==
    /\ InitCommon
    /\ (InitFind \/ InitTune)
    /\ childCfg = config
    /\ pre = [cfg |-> config, keys |-> keys, low |-> low, margin |-> margin]

Next ==
    \/ SearchEntry
    \/ FloorIter
    \/ CeilIter
    \/ BisectIter
    \/ ChildRun
    \/ Join
    \/ TuneBegin
    \/ TuneCommitA
    \/ TuneFinish

Spec == Init /\ [][Next]_vars

\* The program is sequential and each of its steps is taken once it can be.
FairSpec == Spec /\ WF_vars(Next)

\* ==================================================================== claims
Probes == DOMAIN tried
Seen == DOMAIN outcomes

\* The configuration given to auto_scaling had every required field, and a
\* positive episode_length.
ValidConfig == RequiredKeys \subseteq pre.keys /\ pre.cfg.episode_length > 0

\* The configuration was valid, Stage A's search returned None (every candidate
\* failed in the child) and auto_scaling went on from there.
StageAFailed ==
    /\ entry = "tune"
    /\ ValidConfig
    /\ IsNone(max_envs)
    /\ apc = "stageB" \/ (apc = "raised" /\ exc = "TypeError")

\* The last candidate Stage A called its closure with.
LastStageACand ==
    LET I == {i \in Probes : tried[i].stage = "stageA"}
    IN  tried[CHOOSE i \in I : \A j \in I : j <= i].cand

\* ------------------------------------------------------------------------ C1
FindMonotone == entry = "find" /\ job.given /\ ~job.free /\ job.T1 >= 1

\* C1: a direct best_param_search with low > 0, margin > 0 and a probe that
\* succeeds exactly for candidates <= T (T >= 1) terminates and returns a value v
\* with T - margin <= v <= T.
C1_MonotonicBoundary ==
    (FindMonotone /\ pc = "entry" /\ low > 0 /\ margin > 0)
        ~> (/\ pc = "returned"
            /\ ~IsNone(ret)
            /\ job.T1 - margin <= ret.v
            /\ ret.v <= job.T1)

\* A search that halved, doubled and bisected before it returned the threshold.
C1_Witness ==
    /\ FindMonotone
    /\ pc = "returned"
    /\ ~IsNone(ret)
    /\ ret.v = job.T1
    /\ \A ph \in {"floor", "ceil", "bisect"} : \E i \in Probes : tried[i].phase = ph

\* ------------------------------------------------------------------------ C2
\* C2: a child that dies abnormally is seen by the parent as a failed probe, so
\* the search never takes its candidate as a success.
C2_Isolation ==
    \A i \in Seen : outcomes[i].child = "crash" => ~outcomes[i].ok

\* ------------------------------------------------------------------------ C3
\* C3: with low > 0, margin > 0 and a probe that fails at every positive
\* candidate, best_param_search makes no ceiling or bisection probe and returns
\* None.
C3_FloorFailure ==
    (entry = "find" /\ job.T1 = 0 /\ pc \notin {"entry", "asserted"}) =>
        /\ pc \in {"floor", "returned"}
        /\ \A i \in Probes : tried[i].phase \in {"first", "floor"}
        /\ pc = "returned" => IsNone(ret)

\* ------------------------------------------------------------------------ C4
\* C4: when auto_scaling finishes, by full success or because Stage A found no
\* viable value, use_wandb is what it was before the call; on full success
\* num_episodes is too.
C4_Restore ==
    /\ (apc = "done" \/ (apc = "raised" /\ StageAFailed)) =>
           config.use_wandb = pre.cfg.use_wandb
    /\ apc = "done" => config.num_episodes = pre.cfg.num_episodes

\* ------------------------------------------------------------------------ C5
\* C5: when Stage A's search yields no viable value, Stage B is never entered:
\* its search is not started, its closure is never called, and train_batch_size
\* stays as Stage A's last probe left it.
C5_NoStageB ==
    StageAFailed =>
        /\ apc # "stageB"
        /\ \A i \in Probes : tried[i].stage # "stageB"
        /\ config.train_batch_size = LastStageACand

\* ------------------------------------------------------------------------ C6
\* C6: if the job runs exactly when num_envs <= T1 and train_batch_size <=
\* T2 * num_envs (T1, T2 >= 1), auto_scaling called with a positive num_envs
\* returns a configuration with T1 - 1 <= num_envs <= T1 and
\* num_envs * (T2 - 1) <= train_batch_size <= num_envs * T2.  The num_envs it
\* returns is the one line 180 commits after Stage A, so the bound on num_envs
\* is stated from that commit on.  The configuration has its required fields
\* and a positive episode_length, and the job can be started.
C6_FullSuccess ==
    (entry = "tune" /\ ValidConfig /\ job.spawnable /\ job.T1 >= 1 /\ job.T2 >= 1
        /\ pre.cfg.num_envs.v > 0) =>
        /\ apc \in {"stageB", "done"} =>
               /\ ~IsNone(config.num_envs)
               /\ job.T1 - 1 <= config.num_envs.v
               /\ config.num_envs.v <= job.T1
        /\ apc = "done" =>
               /\ config.num_envs.v * (job.T2 - 1) <= config.train_batch_size
               /\ config.train_batch_size <= config.num_envs.v * job.T2

\* A finished run whose Stage A had to halve and whose Stage B had to bisect.
C6_Witness ==
    /\ entry = "tune"
    /\ apc = "done"
    /\ job.T1 >= 2
    /\ job.T2 >= 3
    /\ pre.cfg.num_envs.v > job.T1
    /\ config.train_batch_size = job.T1 * job.T2
    /\ \E i \in Probes : tried[i].stage = "stageB" /\ tried[i].phase = "bisect"

\* ------------------------------------------------------------------------ C7
\* C7: launch_process reads the outcome only after the child has ended; it
\* returns normally when the child completed the job, and raises the error the
\* child sent when the job raised; it raises in no other case; and a child
\* whose job raised gets its error sent and ends, so that the parent, waiting
\* in join, comes to raise it.
C7_OutcomeReporting ==
    /\ [][(pc = "wait" /\ pc' # "wait") =>
             /\ child = "exited"
             /\ childResult = "ok" => outcomes'[Len(outcomes')].ok
             /\ childResult = "raise" =>
                    /\ ~outcomes'[Len(outcomes')].ok
                    /\ p_exception' = "Exception"
                    /\ pipe' = <<>>
             /\ ~outcomes'[Len(outcomes')].ok => childResult = "raise"]_vars
    /\ [](child # "blocked")

\* A run in which one child completed and was seen to succeed, and another
\* raised and was seen to fail.
C7_Witness ==
    /\ \E i \in Seen : outcomes[i].child = "ok" /\ outcomes[i].ok
    /\ \E i \in Seen : outcomes[i].child = "raise" /\ ~outcomes[i].ok

\* ------------------------------------------------------------------------ C8
\* C8: when a required field of the configuration is missing, or episode_length
\* is 0, auto_scaling raises before any candidate is tried.
C8_ConfigFailsFast ==
    (entry = "tune" /\ ~ValidConfig) =>
        /\ tried = <<>>
        /\ apc \notin {"stageB", "done"}

\* ------------------------------------------------------------------------ C9
\* C9: while auto_scaling is searching, and whenever a child process exists,
\* use_wandb is false in the configuration and in the child's copy of it.
C9_WandbOff ==
    /\ apc \in {"stageA", "stageB"} => ~config.use_wandb
    /\ child \in {"running", "blocked", "exited"} =>
           (~config.use_wandb /\ ~childCfg.use_wandb)

\* A Stage B child running for a caller who had wandb on.
C9_Witness ==
    /\ pre.cfg.use_wandb
    /\ apc = "stageB"
    /\ child = "running"

\* ----------------------------------------------------------------------- C10
\* C10: after Stage A's search found no viable value, num_envs is the last
\* candidate Stage A tried.
C10_NumEnvsLastTried ==
    StageAFailed =>
        /\ ~IsNone(config.num_envs)
        /\ config.num_envs.v = LastStageACand

\* ----------------------------------------------------------------------- C11
\* The probes that called launch_process and whose outcome has been seen.
Called == {i \in Seen : outcomes[i].child # "none"}

\* The probes that started a child process and whose outcome has been seen.
Launched == {i \in Seen : outcomes[i].child \notin {"none", "nostart"}}

\* At most one child exists, only while launch_process waits in join; every
\* child started belongs to one launch_process call, and the next one starts
\* only after the outcome of the previous one is known.
OneAtATime ==
    /\ started - finished \in {0, 1}
    /\ (started - finished = 1) <=> (child \in {"running", "blocked"})
    /\ child \in {"running", "blocked"} => pc = "wait"
    /\ pc # "wait" => started = finished
    /\ started = Cardinality(Launched) + (IF pc = "wait" THEN 1 ELSE 0)

\* C11 as claimed: each launch_process call starts exactly one child and
\* returns only after that child has ended, so at most one child exists at any
\* time and the next one starts only after the outcome of the previous one is
\* known.
C11_ExactlyOne ==
    /\ OneAtATime
    /\ started = Cardinality(Called) + (IF pc = "wait" THEN 1 ELSE 0)

\* C11 as amended: each launch_process call starts at most one child: exactly
\* one, and then it returns only after that child has ended, unless p.start()
\* itself raises (the job or the configuration cannot be pickled), and then it
\* starts none and the probe fails; at most one child exists at any time and
\* the next one starts only after the outcome of the previous one is known.
C11_Serialized ==
    /\ OneAtATime
    /\ \A i \in Called \ Launched : StartRaises /\ ~outcomes[i].ok
    /\ ~StartRaises => Called = Launched
    /\ StartRaises => started = 0

\* The child of a Stage B probe running after several children have come and gone.
C11_Witness ==
    /\ apc = "stageB"
    /\ child = "running"
    /\ finished >= 3

\* ----------------------------------------------------------------------- C12
\* The first probe of a search: no probe before it in the same stage.
StartsSearch(i) == i = 1 \/ tried[i - 1].stage # tried[i].stage

\* The probes of the search of probe i that came before it.
Before(i) == {j \in Probes : j < i /\ tried[j].stage = tried[i].stage}

\* The value low has at probe i: the candidate of the last success before it.
LowAt(i) ==
    LET S == {j \in Before(i) : outcomes[j].ok}
    IN  tried[CHOOSE j \in S : \A k \in S : k <= j].cand

\* The value high has at bisection probe i: the candidate of the last failed
\* ceiling or bisection probe before it.
HighAt(i) ==
    LET F == {j \in Before(i) : ~outcomes[j].ok /\ tried[j].phase \in {"ceil", "bisect"}}
    IN  tried[CHOOSE j \in F : \A k \in F : k <= j].cand

StartingLow(st) ==
    CASE st = "find" -> pre.low
      [] st = "stageA" -> pre.cfg.num_envs.v
      [] st = "stageB" -> 1

\* C12: within one search the candidates are probed in the three-phase order:
\* the starting low, then halvings while the probes fail, then doublings of the
\* successful low while the probes succeed, then the midpoints of low and high;
\* no doubling before the first success, no midpoint before the first failed
\* doubling, and no halving or doubling after a midpoint.
C12_ProbeOrder ==
    \A i \in Probes :
        IF StartsSearch(i)
        THEN tried[i].phase = "first" /\ tried[i].cand = StartingLow(tried[i].stage)
        ELSE LET p == tried[i - 1]
                 o == outcomes[i - 1]
                 t == tried[i]
             IN  CASE t.phase = "first" -> FALSE
                   [] t.phase = "floor" ->
                        /\ p.phase \in {"first", "floor"}
                        /\ ~o.ok
                        /\ t.cand = p.cand \div 2
                   [] t.phase = "ceil" ->
                        /\ p.phase \in {"first", "floor", "ceil"}
                        /\ o.ok
                        /\ t.cand = 2 * p.cand
                   [] t.phase = "bisect" ->
                        /\ p.phase \in {"ceil", "bisect"}
                        /\ p.phase = "ceil" => ~o.ok
                        /\ t.cand = (LowAt(i) + HighAt(i)) \div 2

\* A search that went through every phase, with two halvings, two doublings
\* and two midpoints.
C12_Witness ==
    /\ pc = "returned"
    /\ \A ph \in {"floor", "ceil", "bisect"} :
           \E i, j \in Probes : /\ i < j
                                /\ tried[i].stage = Stage /\ tried[j].stage = Stage
                                /\ tried[i].phase = ph /\ tried[j].phase = ph

\* ----------------------------------------------------------------------- C13
\* The seen probes of the search that is running or has just returned.
CurProbes == {i \in Seen : tried[i].stage = Stage}

\* The most recent probe of this search at candidate c was a success.
LastOkAt(c) ==
    LET I == {i \in CurProbes : tried[i].cand = c}
    IN  I # {} /\ outcomes[CHOOSE i \in I : \A j \in I : j <= i].ok

\* The most recent probe of this search at candidate c was a failure.
LastFailedAt(c) ==
    LET I == {i \in CurProbes : tried[i].cand = c}
    IN  I # {} /\ ~outcomes[CHOOSE i \in I : \A j \in I : j <= i].ok

\* C13: from the end of ceiling discovery through every bisection to the
\* return, low < high, the most recent probe at low succeeded and the most
\* recent probe at high failed.
C13_SearchState ==
    (\/ pc = "bisect"
     \/ pc = "wait" /\ phase = "bisect"
     \/ pc = "returned" /\ ~IsNone(ret)) =>
        /\ low < high
        /\ LastOkAt(low)
        /\ LastFailedAt(high)

\* ----------------------------------------------------------------------- C14
\* C14: a value returned by best_param_search is positive, is a candidate the
\* probe was called with and succeeded at during this search, and is the
\* largest candidate that succeeded during it, whatever the probe does.
C14_ReturnedSucceeded ==
    (pc = "returned" /\ ~IsNone(ret)) =>
        /\ ret.v > 0
        /\ \E i \in CurProbes : tried[i].cand = ret.v /\ outcomes[i].ok
        /\ \A i \in CurProbes : outcomes[i].ok => tried[i].cand <= ret.v

\* ----------------------------------------------------------------------- C15
\* C15: a bisection iteration is entered only with high - low > margin >= 1 and
\* probes a mid with low < mid < high; whichever way the probe turns out,
\* high - low gets smaller and stays >= 1, a return gives the final low, and
\* the bisection leads to a return, unless a probe never turns out either way
\* (its child stays blocked in send).
C15_BisectionProgress ==
    /\ [][(Len(tried') = Len(tried) + 1 /\ tried'[Len(tried')].phase = "bisect") =>
             /\ margin >= 1
             /\ high - low > margin
             /\ low < cand'
             /\ cand' < high]_vars
    /\ [][(Len(outcomes') = Len(outcomes) + 1 /\ phase' = "bisect") =>
             /\ high' - low' < high - low
             /\ high' - low' >= 1
             /\ low' \in {low, cand'}
             /\ pc' = "returned" => ret' = Int_(low')]_vars
    /\ (pc = "bisect") ~> (pc = "returned" \/ child = "blocked")

\* A free probe's search that returned after a bisection probe that succeeded
\* and one that failed.
C15_Witness ==
    /\ job.free
    /\ pc = "returned"
    /\ \E i, j \in CurProbes : /\ tried[i].phase = "bisect" /\ outcomes[i].ok
                               /\ tried[j].phase = "bisect" /\ ~outcomes[j].ok

\* ----------------------------------------------------------------------- C16
\* C16: when auto_scaling returns normally, the num_envs and train_batch_size
\* of the configuration are those a Stage B child was started with and whose
\* probe was seen to succeed.
C16_ReturnedPairTried ==
    apc = "done" =>
        \E i \in Launched :
            /\ tried[i].stage = "stageB"
            /\ outcomes[i].ok
            /\ outcomes[i].n = config.num_envs
            /\ outcomes[i].b = config.train_batch_size

\* A normal return with several envs and several batches per env.
C16_Witness ==
    /\ apc = "done"
    /\ config.num_envs.v >= 2
    /\ config.train_batch_size >= 2 * config.num_envs.v

\* ----------------------------------------------------------------------- C17
\* C17: once Stage A has committed its result, num_envs keeps that value
\* through every Stage B probe and at the return; every Stage B child is
\* started with train_batch_size = candidate * num_envs; and the Stage B
\* search starts at 1 whatever train_batch_size was before the call.
C17_StageBFrame ==
    /\ (apc \in {"stageB", "done"} \/ (apc = "raised" /\ exc = "TypeError")) =>
           config.num_envs = max_envs
    /\ (apc = "stageB" /\ child = "running") =>
           /\ childCfg.num_envs = max_envs
           /\ childCfg.train_batch_size = cand * max_envs.v
    /\ \A i \in Launched : tried[i].stage = "stageB" =>
           /\ outcomes[i].n = max_envs
           /\ outcomes[i].b = tried[i].cand * max_envs.v
    /\ \A i \in Probes : (tried[i].stage = "stageB" /\ StartsSearch(i)) =>
           tried[i].cand = 1

\* A normal return for a caller whose train_batch_size was 2, after Stage B
\* children ran with several envs.
C17_Witness ==
    /\ apc = "done"
    /\ pre.cfg.train_batch_size = 2
    /\ max_envs.v >= 2
    /\ \E i \in Launched : tried[i].stage = "stageB" /\ tried[i].cand >= 2

\* ----------------------------------------------------------------------- C18
\* C18: best_param_search called with low <= 0 or margin <= 0 raises
\* AssertionError before any probe, and changes nothing of the search state.
C18_Precondition ==
    /\ (entry = "find" /\ (pre.low <= 0 \/ pre.margin <= 0)) =>
           /\ pc \in {"entry", "asserted"}
           /\ tried = <<>>
           /\ low = pre.low /\ margin = pre.margin
           /\ high = 0 /\ ~success /\ IsNone(ret)
           /\ started = 0
    /\ pc = "asserted" =>
           /\ exc = "AssertionError"
           /\ low <= 0 \/ margin <= 0 \/ ~job.given
           /\ tried = <<>>

\* The assertion failed for a positive low with margin 0.
C18_Witness ==
    /\ entry = "find"
    /\ pc = "asserted"
    /\ pre.low > 0
    /\ pre.margin = 0

\* ----------------------------------------------------------------------- C19
\* C19: for a threshold probe (T >= 1), low > 0 and margin > 0, the returned v
\* has T - margin < v <= T; with margin = 1 it is T.
C19_StrictLowerBound ==
    (FindMonotone /\ pc = "returned") =>
        /\ ~IsNone(ret)
        /\ job.T1 - margin < ret.v
        /\ ret.v <= job.T1
        /\ margin = 1 => ret.v = job.T1

\* A search with margin 2 that returned the value just below the threshold
\* after a bisection.
C19_Witness ==
    /\ FindMonotone
    /\ pc = "returned"
    /\ margin = 2
    /\ ret.v = job.T1 - 1
    /\ \E i \in Probes : tried[i].phase = "bisect"

====
